---- MODULE Spec2Model ----
(***************************************************************************)
(* The VQE notebook chemistry/SQUIDnotebookIgor as a state machine.        *)
(* One action per code cell, run top to bottom.  The state is the kernel   *)
(* namespace: one variable per Python name the cells bind, plus `defined`, *)
(* the set of names currently bound.  Calls into the chemistry/simulation  *)
(* framework are modelled by their data-shape contract; each may raise.    *)
(***************************************************************************)
EXTENDS Integers, Sequences, FiniteSets, TLC

\* ---------------------------------------------------------------- bounds
MaxOrbitals == 2
MaxTime == 2
MaxEnergy == 2

\* ------------------------------------------------------ program constants
MinOrbitals == 2
NumAlpha == 1
NumBeta == 1
max_eval == 200
qasm_shots == 10000
default_shots == 1024
num_time_slices == 10

ValidMappings == {"jordan_wigner", "parity", "bravyi_kitaev"}

\* a name the mapping call does not know, to exercise its rejection
MapChoices == ValidMappings \cup {"bogus"}

\* names bound by the import cell
ImportedNames ==
  {"np", "plt", "Aer", "IBMQ", "QuantumRegister", "least_busy", "Operator",
   "QuantumInstance", "VQE", "ExactEigensolver", "COBYLA", "SPSA", "P_BFGS",
   "RY", "RYRZ", "FermionicOperator", "PySCFDriver", "UnitsType", "UCCSD",
   "HartreeFock"}

\* the code cells in notebook order
CellOrder ==
  << "driver", "map_type", "ferOp", "mapping", "optimizer", "HF_state",
     "var_form", "qasm", "backend_qasm", "backend_sv", "vqe", "run",
     "circuit", "evolution", "sweep" >>

CellIndex(c) == CHOOSE i \in 1..Len(CellOrder) : CellOrder[i] = c

\* the cell that runs after cell c has completed
NextCell_Swapped(c) ==
  IF c = "var_form" THEN "run"
  ELSE IF CellIndex(c) = Len(CellOrder) THEN "done"
  ELSE CellOrder[CellIndex(c) + 1]

NextCell(c) ==
  IF CellIndex(c) = Len(CellOrder) THEN "done" ELSE CellOrder[CellIndex(c) + 1]

\* no cell has a try/except: an exception ends the run where it is raised
Raise_Retry(c) == c

Raise(c) == "failed"

VARIABLES
  pc,                        \* the next cell to run, "sweep_loop", "done" or "failed"
  error,                     \* the exception that ended the run, or "none"
  config,                    \* the hardcoded settings of the notebook
  defined,                   \* names bound in the kernel namespace
  executed,                  \* cells started so far, in order
  stdout,                    \* what the cells printed
  calls,                     \* circuit executions: who asked, on which context
  molecule, nuclear_repulsion_energy, num_particles, num_spin_orbitals,
  map_type, ferOp, qubit_reduction, qubitOp,
  optimizer, HF_state, var_form,
  qasm, quantum_instance, sv_mode, num_qubits,
  vqe, results, circuit,
  evolution_time, initial_circuit, evolution_circuit, max_time,
  statevector_of_t,
  evo_t,                     \* the index the sweep visits next
  written                    \* row indices assigned by the sweep, in order

ctlVars == << config >>
molVars == << molecule, nuclear_repulsion_energy, num_particles, num_spin_orbitals >>
opVars == << map_type, ferOp, qubit_reduction, qubitOp >>
ansVars == << optimizer, HF_state, var_form >>
beVars == << qasm, quantum_instance, sv_mode, num_qubits >>
runVars == << vqe, results, circuit >>
evoVars == << evolution_time, initial_circuit, evolution_circuit, max_time,
              statevector_of_t, evo_t, written >>

vars == << pc, error, config, defined, executed, stdout, calls,
           molVars, opVars, ansVars, beVars, runVars, evoVars >>

\* ------------------------------------------------- values of unbound names
NoMolecule == [num_orbitals |-> 0, num_alpha |-> 0, num_beta |-> 0,
               nuclear_repulsion_energy |-> 0]
NoFerOp == [modes |-> 0]
NoQubitOp == [num_qubits |-> 0, map_type |-> "", reduced |-> FALSE, chopped |-> FALSE]
NoOptimizer == [name |-> "", maxiter |-> 0]
NoState == [num_qubits |-> 0, num_orbitals |-> 0, num_particles |-> 0,
            qubit_mapping |-> "", two_qubit_reduction |-> FALSE]
NoVarForm == [name |-> "", num_qubits |-> 0, depth |-> 0, num_orbitals |-> 0,
              num_particles |-> 0, initial_state |-> NoState,
              qubit_mapping |-> "", two_qubit_reduction |-> FALSE]
NoInstance == [backend |-> "", shots |-> 0]
NoVQE == [operator |-> NoQubitOp, var_form |-> NoVarForm, optimizer |-> NoOptimizer]
NoResults == [eigval |-> 0, opt_params |-> 0]
NoCircuit == [num_qubits |-> 0, basis |-> 0, evo_time |-> 0]
NoWave == [statevector_mode |-> FALSE, parameter |-> 0]

Configs ==
  [map_type : MapChoices, qasm : BOOLEAN, evolution_time : 1..MaxTime]

Init ==
  /\ pc = CellOrder[1]
  /\ error = "none"
  /\ config \in Configs
  /\ defined = ImportedNames
  /\ executed = << >>
  /\ stdout = << >>
  /\ calls = << >>
  /\ molecule = NoMolecule
  /\ nuclear_repulsion_energy = 0
  /\ num_particles = 0
  /\ num_spin_orbitals = 0
  /\ map_type = ""
  /\ ferOp = NoFerOp
  /\ qubit_reduction = FALSE
  /\ qubitOp = NoQubitOp
  /\ optimizer = NoOptimizer
  /\ HF_state = NoState
  /\ var_form = NoVarForm
  /\ qasm = FALSE
  /\ quantum_instance = NoInstance
  /\ sv_mode = FALSE
  /\ num_qubits = 0
  /\ vqe = NoVQE
  /\ results = NoResults
  /\ circuit = NoWave
  /\ evolution_time = 0
  /\ initial_circuit = NoCircuit
  /\ evolution_circuit = NoCircuit
  /\ max_time = 0
  /\ statevector_of_t = << >>
  /\ evo_t = 0
  /\ written = << >>

\* a cell starts: it is the next one and the run has not ended
Start(c) ==
  /\ pc = c
  /\ executed' = Append(executed, c)

\* ------------------------------------------------------------ Step 1 cell
\* driver.run() and the three derived scalars, then three prints
RunDriver ==
  /\ Start("driver")
  /\ \E ok \in BOOLEAN :
       IF ok
       THEN /\ \E orb \in MinOrbitals..MaxOrbitals, nre \in 0..1 :
                 molecule' = [num_orbitals |-> orb, num_alpha |-> NumAlpha,
                              num_beta |-> NumBeta, nuclear_repulsion_energy |-> nre]
            /\ nuclear_repulsion_energy' = molecule'.nuclear_repulsion_energy
            /\ num_particles' = molecule'.num_alpha + molecule'.num_beta
            /\ num_spin_orbitals' = molecule'.num_orbitals * 2
            /\ defined' = defined \cup {"driver", "molecule", "nuclear_repulsion_energy",
                                        "num_particles", "num_spin_orbitals"}
            /\ stdout' = stdout \o << << "electrons", num_particles' >>,
                                      << "spin orbitals", num_spin_orbitals' >> >>
            /\ pc' = NextCell("driver")
            /\ error' = error
       ELSE /\ defined' = defined \cup {"driver"}
            /\ pc' = Raise("driver")
            /\ error' = "DriverError"
            /\ UNCHANGED << molVars, stdout >>
  /\ UNCHANGED << ctlVars, calls, opVars, ansVars, beVars, runVars, evoVars >>

\* ------------------------------------------------------------ Step 2 cells
SetMapType ==
  /\ Start("map_type")
  /\ map_type' = config.map_type
  /\ defined' = defined \cup {"map_type"}
  /\ pc' = NextCell("map_type")
  /\ UNCHANGED << error, ctlVars, stdout, calls, molVars, ferOp, qubit_reduction,
                  qubitOp, ansVars, beVars, runVars, evoVars >>

\* FermionicOperator(h1, h2): one mode per spin orbital of the integrals
BuildFermionicOp ==
  /\ Start("ferOp")
  /\ \E ok \in BOOLEAN :
       IF ok
       THEN /\ ferOp' = [modes |-> 2 * molecule.num_orbitals]
            /\ defined' = defined \cup {"h1", "h2", "ferOp"}
            /\ pc' = NextCell("ferOp")
            /\ error' = error
       ELSE /\ defined' = defined \cup {"h1", "h2"}
            /\ pc' = Raise("ferOp")
            /\ error' = "OperatorError"
            /\ UNCHANGED ferOp
  /\ UNCHANGED << ctlVars, stdout, calls, molVars, map_type, qubit_reduction,
                  qubitOp, ansVars, beVars, runVars, evoVars >>

\* the flag of line 201
ReductionFlag_Always(mt) == TRUE

ReductionFlag(mt) == IF mt = "parity" THEN TRUE ELSE FALSE

\* does ferOp.mapping accept the name
MappingAccepts_Any(mt) == TRUE

MappingAccepts(mt) == mt \in ValidMappings

\* ferOp.mapping: one qubit per fermionic mode
mapping(op, mt) ==
  [num_qubits |-> op.modes, map_type |-> mt, reduced |-> FALSE, chopped |-> FALSE]

\* two_qubit_reduced_operator: the same operator on two qubits fewer
two_qubit_reduced_operator_Keep(op) == [op EXCEPT !.reduced = TRUE]

two_qubit_reduced_operator(op) ==
  [op EXCEPT !.num_qubits = op.num_qubits - 2, !.reduced = TRUE]

\* lines 201-209: flag, mapping, optional reduction, chop, print
MapToQubitOp ==
  /\ Start("mapping")
  /\ qubit_reduction' = ReductionFlag(map_type)
  /\ \E ok \in BOOLEAN :
       IF ok /\ MappingAccepts(map_type)
       THEN /\ qubitOp' =
                 LET mapped == mapping(ferOp, map_type)
                     reducedOp == IF qubit_reduction'
                                  THEN two_qubit_reduced_operator(mapped)
                                  ELSE mapped
                 IN  [reducedOp EXCEPT !.chopped = TRUE]
            /\ defined' = defined \cup {"qubit_reduction", "qubitOp"}
            /\ stdout' = Append(stdout, << "qubitOp", qubitOp'.num_qubits >>)
            /\ pc' = NextCell("mapping")
            /\ error' = error
       ELSE /\ defined' = defined \cup {"qubit_reduction"}
            /\ pc' = Raise("mapping")
            /\ error' = "MappingError"
            /\ UNCHANGED << qubitOp, stdout >>
  /\ UNCHANGED << ctlVars, calls, molVars, map_type, ferOp, ansVars, beVars,
                  runVars, evoVars >>

\* ------------------------------------------------------------ Step 3 cells
SetupOptimizer ==
  /\ Start("optimizer")
  /\ \E ok \in BOOLEAN :
       IF ok
       THEN /\ optimizer' = [name |-> "COBYLA", maxiter |-> max_eval]
            /\ defined' = defined \cup {"max_eval", "optimizer"}
            /\ pc' = NextCell("optimizer")
            /\ error' = error
       ELSE /\ defined' = defined \cup {"max_eval"}
            /\ pc' = Raise("optimizer")
            /\ error' = "OptimizerError"
            /\ UNCHANGED optimizer
  /\ UNCHANGED << ctlVars, stdout, calls, molVars, opVars, HF_state, var_form,
                  beVars, runVars, evoVars >>

\* the qubit count HartreeFock is given (line 261)
HFQubits_SpinOrbitals(op, nso) == nso

HFQubits(op, nso) == op.num_qubits

SetupHartreeFock ==
  /\ Start("HF_state")
  /\ \E ok \in BOOLEAN :
       IF ok
       THEN /\ HF_state' = [num_qubits |-> HFQubits(qubitOp, num_spin_orbitals),
                            num_orbitals |-> num_spin_orbitals,
                            num_particles |-> num_particles,
                            qubit_mapping |-> map_type,
                            two_qubit_reduction |-> qubit_reduction]
            /\ defined' = defined \cup {"HF_state"}
            /\ pc' = NextCell("HF_state")
            /\ error' = error
       ELSE /\ pc' = Raise("HF_state")
            /\ error' = "InitialStateError"
            /\ UNCHANGED << HF_state, defined >>
  /\ UNCHANGED << ctlVars, stdout, calls, molVars, opVars, optimizer, var_form,
                  beVars, runVars, evoVars >>

\* UCCSD derives its own qubit count from the spin-orbital count and the
\* reduction flag, and refuses a count that differs from the one it is given
UCCSDQubits(nso, reduction) == IF reduction THEN nso - 2 ELSE nso

SetupVarForm ==
  /\ Start("var_form")
  /\ \E ok \in BOOLEAN :
       IF ok /\ UCCSDQubits(num_spin_orbitals, qubit_reduction) = qubitOp.num_qubits
       THEN /\ var_form' = [name |-> "UCCSD", num_qubits |-> qubitOp.num_qubits,
                            depth |-> 1, num_orbitals |-> num_spin_orbitals,
                            num_particles |-> num_particles,
                            initial_state |-> HF_state,
                            qubit_mapping |-> map_type,
                            two_qubit_reduction |-> qubit_reduction]
            /\ defined' = defined \cup {"var_form"}
            /\ pc' = NextCell("var_form")
            /\ error' = error
       ELSE /\ pc' = Raise("var_form")
            /\ error' = "VariationalFormError"
            /\ UNCHANGED << var_form, defined >>
  /\ UNCHANGED << ctlVars, stdout, calls, molVars, opVars, optimizer, HF_state,
                  beVars, runVars, evoVars >>

\* ---------------------------------------------------------- backend cells
SetQasm ==
  /\ Start("qasm")
  /\ qasm' = config.qasm
  /\ defined' = defined \cup {"qasm"}
  /\ pc' = NextCell("qasm")
  /\ UNCHANGED << error, ctlVars, stdout, calls, molVars, opVars, ansVars,
                  quantum_instance, sv_mode, num_qubits, runVars, evoVars >>

\* names the `if qasm:` cell binds before it reads `noise` (lines 353-362)
QasmCellHead ==
  {"qasm_simulator", "lb_device", "quantum_instance", "device", "properties",
   "coupling_map"}

\* names it binds from there to its end (lines 363-371)
QasmCellTail == {"noise_model", "basis_gates", "shots", "sv_mode", "num_qubits"}

\* the `if qasm:` cell
BackendQasm ==
  /\ Start("backend_qasm")
  /\ IF ~qasm
     THEN /\ pc' = NextCell("backend_qasm")
          /\ UNCHANGED << error, defined, stdout, quantum_instance, sv_mode, num_qubits >>
     ELSE \E ok \in BOOLEAN :
            IF ~ok
            THEN \* the account or the device list cannot be loaded (lines 355-357)
                 /\ defined' = defined \cup {"qasm_simulator"}
                 /\ pc' = Raise("backend_qasm")
                 /\ error' = "BackendError"
                 /\ UNCHANGED << stdout, quantum_instance, sv_mode, num_qubits >>
            ELSE IF "noise" \notin defined
            THEN \* line 363 reads a name no cell binds
                 /\ quantum_instance' = [backend |-> "least_busy_device",
                                         shots |-> default_shots]
                 /\ stdout' = Append(stdout, << "lb_device", 0 >>)
                 /\ defined' = defined \cup QasmCellHead
                 /\ pc' = Raise("backend_qasm")
                 /\ error' = "NameError"
                 /\ UNCHANGED << sv_mode, num_qubits >>
            ELSE IF "qubit_mapper" \notin defined
            THEN \* line 369 reads a name no cell binds
                 /\ quantum_instance' = [backend |-> "least_busy_device",
                                         shots |-> default_shots]
                 /\ stdout' = Append(stdout, << "lb_device", 0 >>)
                 /\ defined' = defined \cup QasmCellHead
                                       \cup {"noise_model", "basis_gates", "shots"}
                 /\ pc' = Raise("backend_qasm")
                 /\ error' = "NameError"
                 /\ UNCHANGED << sv_mode, num_qubits >>
            ELSE /\ quantum_instance' = [backend |-> "qasm_simulator",
                                         shots |-> qasm_shots]
                 /\ sv_mode' = FALSE
                 /\ num_qubits' = qubitOp.num_qubits
                 /\ stdout' = Append(stdout, << "lb_device", 0 >>)
                 /\ defined' = defined \cup QasmCellHead \cup QasmCellTail
                 /\ pc' = NextCell("backend_qasm")
                 /\ error' = error
  /\ UNCHANGED << ctlVars, calls, molVars, opVars, ansVars, qasm, runVars, evoVars >>

\* the `if not qasm:` cell
BackendStatevector ==
  /\ Start("backend_sv")
  /\ IF qasm
     THEN /\ pc' = NextCell("backend_sv")
          /\ UNCHANGED << error, defined, quantum_instance, sv_mode, num_qubits >>
     ELSE \E ok \in BOOLEAN :
            IF ok
            THEN /\ quantum_instance' = [backend |-> "statevector_simulator",
                                         shots |-> default_shots]
                 /\ sv_mode' = TRUE
                 /\ num_qubits' = qubitOp.num_qubits
                 /\ defined' = defined \cup {"sv_simulator", "quantum_instance",
                                             "sv_mode", "num_qubits"}
                 /\ pc' = NextCell("backend_sv")
                 /\ error' = error
            ELSE /\ pc' = Raise("backend_sv")
                 /\ error' = "BackendError"
                 /\ UNCHANGED << defined, quantum_instance, sv_mode, num_qubits >>
  /\ UNCHANGED << ctlVars, stdout, calls, molVars, opVars, ansVars, qasm,
                  runVars, evoVars >>

SetupVQE ==
  /\ Start("vqe")
  /\ \E ok \in BOOLEAN :
       IF ok
       THEN /\ vqe' = [operator |-> qubitOp, var_form |-> var_form,
                       optimizer |-> optimizer]
            /\ defined' = defined \cup {"vqe"}
            /\ pc' = NextCell("vqe")
            /\ error' = error
       ELSE /\ pc' = Raise("vqe")
            /\ error' = "AlgorithmError"
            /\ UNCHANGED << vqe, defined >>
  /\ UNCHANGED << ctlVars, stdout, calls, molVars, opVars, ansVars, beVars,
                  results, circuit, evoVars >>

\* ------------------------------------------------------------ Step 4 cells
\* vqe.run(quantum_instance) and the three prints of lines 456-458
RunVQE ==
  /\ Start("run")
  /\ IF "quantum_instance" \notin defined
     THEN /\ pc' = Raise("run")
          /\ error' = "NameError"
          /\ UNCHANGED << defined, stdout, calls, results >>
     ELSE /\ calls' = Append(calls, [by |-> "vqe.run", context |-> quantum_instance])
          /\ \E ok \in BOOLEAN :
               IF ok
               THEN /\ \E e \in 1..MaxEnergy, p \in 0..1 :
                         results' = [eigval |-> 0 - e, opt_params |-> p]
                    /\ stdout' = stdout \o
                         << << "energy", results'.eigval >>,
                            << "total energy", results'.eigval + nuclear_repulsion_energy >>,
                            << "parameters", results'.opt_params >> >>
                    /\ defined' = defined \cup {"results"}
                    /\ pc' = NextCell("run")
                    /\ error' = error
               ELSE /\ pc' = Raise("run")
                    /\ error' = "AlgorithmError"
                    /\ UNCHANGED << defined, stdout, results >>
  /\ UNCHANGED << ctlVars, molVars, opVars, ansVars, beVars, vqe, circuit, evoVars >>

\* vqe.construct_circuit at the optimized parameters, then the drawing
ConstructCircuit_Clobbers ==
  /\ Start("circuit")
  /\ \E ok \in BOOLEAN :
       IF ok
       THEN /\ circuit' = [statevector_mode |-> sv_mode,
                           parameter |-> results.opt_params]
            /\ results' = [results EXCEPT !.opt_params = 1 - results.opt_params]
            /\ defined' = defined \cup {"circuit"}
            /\ pc' = NextCell("circuit")
            /\ error' = error
       ELSE /\ pc' = Raise("circuit")
            /\ error' = "AlgorithmError"
            /\ UNCHANGED << circuit, results, defined >>
  /\ UNCHANGED << ctlVars, stdout, calls, molVars, opVars, ansVars, beVars,
                  vqe, evoVars >>

ConstructCircuit ==
  /\ Start("circuit")
  /\ \E ok \in BOOLEAN :
       IF ok
       THEN /\ circuit' = [statevector_mode |-> sv_mode,
                           parameter |-> results.opt_params]
            /\ defined' = defined \cup {"circuit"}
            /\ pc' = NextCell("circuit")
            /\ error' = error
       ELSE /\ pc' = Raise("circuit")
            /\ error' = "AlgorithmError"
            /\ UNCHANGED << circuit, defined >>
  /\ UNCHANGED << ctlVars, stdout, calls, molVars, opVars, ansVars, beVars,
                  vqe, results, evoVars >>

\* ------------------------------------------------------ time evolution
RECURSIVE Pow2(_)
Pow2(n) == IF n <= 0 THEN 1 ELSE 2 * Pow2(n - 1)

\* amplitudes are pairs << real part, imaginary part >>
Phases == { << 1, 0 >>, << 0, 1 >> }

\* the computational basis state k of dim amplitudes, times a phase
BasisVector(dim, k, ph) == [i \in 1..dim |-> IF i = k + 1 THEN ph ELSE << 0, 0 >>]

\* HF_state.construct_circuit: prepares one basis state of the register
construct_circuit(st, k) == [num_qubits |-> st.num_qubits, basis |-> k, evo_time |-> 0]

\* qubitOp.evolve: the circuit for exp(-iHt) on the operator's qubits
evolve(op, state_in, t) ==
  [num_qubits |-> op.num_qubits, basis |-> state_in.basis, evo_time |-> t]

\* result.get_statevector: 2^n amplitudes; at time 0 the evolution is the
\* identity, later the simulator returns some state (k, ph)
get_statevector(c, k, ph) ==
  IF c.evo_time = 0
  THEN BasisVector(Pow2(c.num_qubits), c.basis, << 1, 0 >>)
  ELSE BasisVector(Pow2(c.num_qubits), k, ph)

\* lines 514-520
SetupEvolution ==
  /\ Start("evolution")
  /\ evolution_time' = config.evolution_time
  /\ \E ok \in BOOLEAN :
       IF ok
       THEN /\ \E k \in 0..(Pow2(HF_state.num_qubits) - 1) :
                 initial_circuit' = construct_circuit(HF_state, k)
            /\ evolution_circuit' = evolve(qubitOp, initial_circuit', evolution_time')
            /\ defined' = defined \cup {"evolution_time", "num_time_slices", "qr",
                                        "initial_circuit", "evolution_circuit"}
            /\ pc' = NextCell("evolution")
            /\ error' = error
       ELSE /\ defined' = defined \cup {"evolution_time", "num_time_slices", "qr"}
            /\ pc' = Raise("evolution")
            /\ error' = "CircuitError"
            /\ UNCHANGED << initial_circuit, evolution_circuit >>
  /\ UNCHANGED << ctlVars, stdout, calls, molVars, opVars, ansVars, beVars,
                  runVars, max_time, statevector_of_t, evo_t, written >>

\* width of a row of np.zeros([max_time, 2*num_qubits])
RowWidth(n) == 2 * n

\* lines 536-537: the output array, one zero row per time index
SweepBegin ==
  /\ Start("sweep")
  /\ max_time' = evolution_time
  /\ statevector_of_t' =
       [t \in 0..(max_time' - 1) |-> [i \in 1..RowWidth(num_qubits) |-> 0]]
  /\ evo_t' = 0
  /\ defined' = defined \cup {"max_time", "statevector_of_t"}
  /\ pc' = "sweep_loop"
  /\ UNCHANGED << error, ctlVars, stdout, calls, molVars, opVars, ansVars, beVars,
                  runVars, evolution_time, initial_circuit, evolution_circuit,
                  written >>

\* numpy accepts a vector for a row of the same length, or of length one
Fits(row, sv) == Len(sv) = Len(row) \/ Len(sv) = 1

\* the float row keeps the real parts
RowAssign(row, sv) ==
  [i \in 1..Len(row) |-> IF Len(sv) = 1 THEN sv[1][1] ELSE sv[i][1]]

\* the row index one iteration of the sweep assigns
RowIndex(t) == t

\* lines 538-541: one iteration of the loop over range(max_time)
SweepStep ==
  /\ pc = "sweep_loop"
  /\ evo_t < max_time
  /\ evolution_circuit' = evolve(qubitOp, initial_circuit, evo_t)
  /\ calls' = Append(calls, [by |-> "sweep", context |-> quantum_instance])
  /\ \E ok \in BOOLEAN :
       IF ~ok
       THEN /\ pc' = Raise("sweep")
            /\ error' = "BackendError"
            /\ UNCHANGED << defined, statevector_of_t, evo_t, written >>
       ELSE IF quantum_instance.backend # "statevector_simulator"
       THEN /\ pc' = Raise("sweep")
            /\ error' = "ResultError"
            /\ defined' = defined \cup {"evo_t", "result"}
            /\ UNCHANGED << statevector_of_t, evo_t, written >>
       ELSE \E k \in 0..(Pow2(num_qubits) - 1), ph \in Phases :
              LET sv == get_statevector(evolution_circuit', k, ph)
                  row == statevector_of_t[RowIndex(evo_t)]
              IN  IF Fits(row, sv)
                  THEN /\ statevector_of_t' =
                            [statevector_of_t EXCEPT ![RowIndex(evo_t)] = RowAssign(row, sv)]
                       /\ written' = Append(written, RowIndex(evo_t))
                       /\ evo_t' = evo_t + 1
                       /\ defined' = defined \cup {"evo_t", "result"}
                       /\ pc' = pc
                       /\ error' = error
                  ELSE /\ pc' = Raise("sweep")
                       /\ error' = "ValueError"
                       /\ defined' = defined \cup {"evo_t", "result"}
                       /\ UNCHANGED << statevector_of_t, evo_t, written >>
  /\ UNCHANGED << ctlVars, executed, stdout, molVars, opVars, ansVars, beVars,
                  runVars, evolution_time, initial_circuit, max_time >>

\* lines 546-558: the loop is over; the plots read columns 0..3
SweepEnd ==
  /\ pc = "sweep_loop"
  /\ evo_t >= max_time
  /\ IF RowWidth(num_qubits) >= 4
     THEN /\ pc' = "done"
          /\ error' = error
     ELSE /\ pc' = Raise("sweep")
          /\ error' = "IndexError"
  /\ defined' = defined \cup {"t"}
  /\ UNCHANGED << ctlVars, executed, stdout, calls, molVars, opVars, ansVars,
                  beVars, runVars, evoVars >>

Next ==
  \/ RunDriver
  \/ SetMapType
  \/ BuildFermionicOp
  \/ MapToQubitOp
  \/ SetupOptimizer
  \/ SetupHartreeFock
  \/ SetupVarForm
  \/ SetQasm
  \/ BackendQasm
  \/ BackendStatevector
  \/ SetupVQE
  \/ RunVQE
  \/ ConstructCircuit
  \/ SetupEvolution
  \/ SweepBegin
  \/ SweepStep
  \/ SweepEnd

Spec == Init /\ [][Next]_vars

\* ------------------------------------------------------------ vocabulary
Cells == { CellOrder[i] : i \in 1..Len(CellOrder) }

\* cell c has been started
Ran(c) == \E i \in 1..Len(executed) : executed[i] = c

\* cell c has run to its end
Completed(c) ==
  /\ Ran(c)
  /\ executed[Len(executed)] = c => pc \notin {"failed", "sweep_loop"}

\* the stage of the pipeline a cell belongs to
StageOf(c) ==
  CASE c = "driver" -> 1
    [] c \in {"map_type", "ferOp", "mapping"} -> 2
    [] c \in {"optimizer", "HF_state", "var_form"} -> 3
    [] c \in {"qasm", "backend_qasm", "backend_sv"} -> 4
    [] c \in {"vqe", "run", "circuit"} -> 5
    [] OTHER -> 6

\* the solver's result has been printed
Reported == \E i \in 1..Len(stdout) : stdout[i][1] = "energy"

RealPart(v) == [i \in 1..Len(v) |-> v[i][1]]

\* the statevector of the reference state, as the sweep's float rows hold it
ReferenceVector ==
  RealPart(BasisVector(Pow2(HF_state.num_qubits), initial_circuit.basis, << 1, 0 >>))

\* ---------------------------------------------------------------- claims

\* C1: for each of the three mappings, once the operator builder has run the
\* reduction flag is true exactly for 'parity', and the qubit Hamiltonian is
\* the two-qubit-reduced one exactly when the flag is true.
C1_ReductionFlagIffParity ==
  (Ran("mapping") /\ map_type \in ValidMappings) =>
     /\ qubit_reduction = (map_type = "parity")
     /\ Completed("mapping") => qubitOp.reduced = qubit_reduction

C1_Witness ==
  /\ Completed("mapping")
  /\ map_type = "parity"
  /\ qubit_reduction
  /\ qubitOp.reduced

C3_ConsistentQubitCount ==
  /\ Completed("HF_state") =>
       /\ HF_state.num_qubits = qubitOp.num_qubits
       /\ HF_state.qubit_mapping = qubitOp.map_type
       /\ HF_state.two_qubit_reduction = qubitOp.reduced
  /\ Ran("var_form") => HF_state.num_qubits = qubitOp.num_qubits
  /\ Completed("var_form") =>
       /\ var_form.num_qubits = qubitOp.num_qubits
       /\ var_form.initial_state = HF_state
       /\ var_form.qubit_mapping = qubitOp.map_type
       /\ var_form.two_qubit_reduction = qubitOp.reduced

C3_Witness ==
  /\ Completed("var_form")
  /\ map_type = "parity"
  /\ var_form.num_qubits = 2
  /\ HF_state.num_qubits = 2

\* C4 as stated: once an error has been raised, no result has been reported.
C4_NoResultReported == error # "none" => ~Reported

\* C4 as amended: an error ends the run where it is raised - nothing runs or
\* is re-issued afterwards, so nothing more is reported; and when the error is
\* raised in the solver runner or earlier, no result is reported at all.
C4_ErrorIsFatal ==
  [][ /\ error # "none" => UNCHANGED vars
      /\ error' # "none" => pc' = "failed"
      /\ (error' # "none" /\ ~Ran("circuit")') => ~Reported' ]_vars

C4_Witness ==
  /\ error = "AlgorithmError"
  /\ pc = "failed"
  /\ executed[Len(executed)] = "run"
  /\ ~Reported

\* C5 as stated: nothing derived from an unknown mapping name is computed.
C5_NothingDerived ==
  (map_type \notin ValidMappings /\ "map_type" \in defined) =>
     {"qubit_reduction", "qubitOp", "HF_state", "var_form"} \cap defined = {}

\* C5 as amended: the mapping call rejects an unknown mapping name, so the
\* qubit Hamiltonian, the reference state and the ansatz are never computed
\* from it; the reduction flag is computed from it, as false, on the line
\* before the rejection.
C5_RejectedByMapping ==
  (map_type \notin ValidMappings /\ "map_type" \in defined) =>
     /\ {"qubitOp", "HF_state", "var_form"} \cap defined = {}
     /\ Ran("mapping") =>
          /\ pc = "failed"
          /\ error = "MappingError"
          /\ executed[Len(executed)] = "mapping"
          /\ "qubit_reduction" \in defined
          /\ qubit_reduction = FALSE

C5_Witness ==
  /\ map_type = "bogus"
  /\ Ran("mapping")
  /\ error = "MappingError"
  /\ "qubit_reduction" \in defined

\* C6: in either execution mode, unless a backend call itself fails, the
\* backend-selection stage ends with one execution context bound together
\* with the statevector-mode flag and the qubit count, and every execution
\* by the solver and by the sweep goes to that context.
C6_OneContextPerMode ==
  /\ (Ran("backend_qasm") /\ qasm /\ error # "BackendError") =>
       /\ Completed("backend_qasm")
       /\ {"quantum_instance", "sv_mode", "num_qubits"} \subseteq defined
       /\ quantum_instance.backend = "qasm_simulator"
  /\ (Ran("backend_sv") /\ ~qasm /\ error # "BackendError") =>
       /\ Completed("backend_sv")
       /\ {"quantum_instance", "sv_mode", "num_qubits"} \subseteq defined
       /\ quantum_instance.backend = "statevector_simulator"
  /\ \A i \in 1..Len(calls) : calls[i].context = quantum_instance

\* C7: the cells, and so the six stages, run in the fixed order, each once,
\* each after the one before it has run to its end; the solver runner starts
\* only when Hamiltonian, ansatz, optimizer and execution context are bound.
C7_FixedStageOrder ==
  /\ Len(executed) <= Len(CellOrder)
  /\ \A i \in 1..Len(executed) : executed[i] = CellOrder[i]
  /\ \A i, j \in 1..Len(executed) :
       i < j => StageOf(executed[i]) <= StageOf(executed[j])
  /\ \A i \in 1..(Len(executed) - 1) : Completed(executed[i])
  /\ pc \in Cells => pc = CellOrder[Len(executed) + 1]
  /\ Ran("run") =>
       {"qubitOp", "var_form", "optimizer", "quantum_instance", "vqe"} \subseteq defined

C7_Witness ==
  /\ pc = "done"
  /\ executed = CellOrder
  /\ Reported

\* C8: the sweep assigns rows 0, 1, ... in increasing order, each once, and
\* unless the backend fails it ends with all max_time rows assigned.
C8_SweepWritesEveryRow ==
  /\ \A i \in 1..Len(written) : written[i] = i - 1
  /\ (Ran("sweep") /\ pc \in {"done", "failed"} /\ error # "BackendError") =>
       Len(written) = max_time

\* C9: for every mapping, once the sweep is past time index 0 or has stopped
\* without a backend failure, row 0 is the statevector of the reference state.
C9_TimeZeroIsReference ==
  (Ran("sweep") /\ error # "BackendError" /\ (evo_t > 0 \/ pc \in {"done", "failed"})) =>
     statevector_of_t[0] = ReferenceVector
\* the lines of the output that make up the result record
IsResultLine(x) == x[1] \in {"energy", "total energy", "parameters"}

ResultLines(out) == SelectSeq(out, IsResultLine)

\* C11: the result record - optimized energy, optimized parameters and the
\* total energy with the nuclear repulsion added - is produced once, by the
\* solver runner, and no later step (circuit reconstruction, evolution setup,
\* the sweep) changes it or reports it again.
C11_ResultRecordWrittenOnce ==
  [][ /\ results' # results =>
           (pc = "run" /\ "results" \notin defined /\ "results" \in defined')
      /\ "results" \in defined =>
           /\ "results" \in defined'
           /\ results' = results
           /\ ResultLines(stdout') = ResultLines(stdout)
      /\ "results" \in defined' =>
           ResultLines(stdout') =
             << << "energy", results'.eigval >>,
                << "total energy", results'.eigval + nuclear_repulsion_energy' >>,
                << "parameters", results'.opt_params >> >>
      /\ "results" \notin defined' =>
           (results' = NoResults /\ ResultLines(stdout') = << >>) ]_vars

C11_Witness ==
  /\ pc = "done"
  /\ "results" \in defined
  /\ "circuit" \in defined
  /\ Len(written) = max_time
  /\ nuclear_repulsion_energy = 1
  /\ ResultLines(stdout)[2] = << "total energy", results.eigval + 1 >>
\* C12: for every mapping, each row of the sweep's output is as long as the
\* statevector, 2^n for the n qubits of the Hamiltonian, so that recording a
\* statevector never stops on a size mismatch.
C12_RowHoldsStatevector ==
  Ran("sweep") =>
     /\ \A t \in DOMAIN statevector_of_t :
          Len(statevector_of_t[t]) = Pow2(qubitOp.num_qubits)
     /\ error # "ValueError"
\* C13: whenever the solver runner, the circuit reconstruction or the time
\* evolution runs, sv_mode is bound and true exactly when the context is the
\* statevector simulator; and in shot-sampled mode the context the backend
\* stage leaves bound is the local shot simulator with the configured shots,
\* not the remote least-busy device.
C13_FlagMatchesContext ==
  /\ (Ran("run") \/ Ran("circuit") \/ Ran("evolution") \/ Ran("sweep")) =>
       /\ {"quantum_instance", "sv_mode"} \subseteq defined
       /\ sv_mode = (quantum_instance.backend = "statevector_simulator")
  /\ (qasm /\ Ran("backend_qasm") /\ "quantum_instance" \in defined) =>
       /\ quantum_instance = [backend |-> "qasm_simulator", shots |-> qasm_shots]
       /\ "sv_mode" \in defined
       /\ sv_mode = FALSE
====
